---- MODULE Spec2Model ----
(***************************************************************************)
(* A model of the peptide price comparator: the ingestion helpers of       *)
(* prepare_data.py (to_float_price, extract_mg, extract_vials,             *)
(* standardize_row), its vendor parsers parse_hyb, parse_cn_full and       *)
(* parse_jeep_csv, and the refresh of app/app.py (upload merge, canonical  *)
(* name resolution, the 10-vial override, filtering, grouping, pivoting,   *)
(* ranking, the display cells, the stored selection, its decoding and the  *)
(* price list by vendor).                                                  *)
(*                                                                         *)
(* Text is a sequence of one-character strings, so that the regular        *)
(* expressions of the source are computed character by character.          *)
(* Numbers are exact fractions <<n, d>> with d > 0 in lowest terms; nan is *)
(* <<0, 0>>, +inf is <<1, 0>>, -inf is <<-1, 0>>; Python's None and        *)
(* pandas' NA are the empty tuple.  Floating point rounding and overflow   *)
(* are not modelled.                                                       *)
(***************************************************************************)
EXTENDS Integers, Sequences, FiniteSets, TLC

VARIABLES
    raw,        \* SpecStd: the raw tuple handed to standardize_row
    rec,        \* SpecStd: the record standardize_row returned, or NoRec
    rname,      \* SpecResolve: a product_name
    rcanon,     \* SpecResolve: its canonical_peptide, or Unset
    rcanon2,    \* SpecResolve: the canonical_peptide of rcanon, or Unset
    pc,             \* where the run of main() stands; "idle" between runs
    master_rows,    \* the number of rows of peptide_prices_master.csv
    session,        \* st.session_state["selected_row_keys"], as a set
    uploaded_files, \* the files the sidebar uploader returned, in order
    merged,         \* df after the upload loop
    errors,         \* the files reported by st.sidebar.error, in order
    df,             \* df with canonical_peptide and the overridden totals
    filt,           \* df after the sidebar filters
    grouped,        \* the grouped records
    vendor_names,   \* sorted(filt["vendor"].unique()), as a set
    ranks,          \* ranks: row -> vendor -> rank of price_per_mg
    display,        \* display: row -> vendor -> cell
    visible_keys,   \* set(edited.index)
    prev_keys_set,  \* the stored selection read at the start of the update
    checked_keys,   \* set(edited.index[edited["Include"]])
    outcome,        \* how the last run of main() ended
    selected_keys,  \* the decoded triples (pep, dose_val, total_val), as a set
    price_list,     \* the price list by vendor, or the message shown instead
    adapter,    \* SpecAdapt: the vendor parser that runs
    table,      \* SpecAdapt: the rows the parser reads
    emitted     \* SpecAdapt: the rows the parser returned, or NotRun

stdVars == <<raw, rec>>
resVars == <<rname, rcanon, rcanon2>>
runVars == <<uploaded_files, merged, errors, df, filt, grouped, vendor_names, ranks, display,
             visible_keys, prev_keys_set, checked_keys>>
projVars == <<selected_keys, price_list>>
appVars == <<pc, master_rows, session, runVars, projVars, outcome>>
adaptVars == <<adapter, table, emitted>>
vars == <<stdVars, resVars, appVars, adaptVars>>

----------------------------------------------------------------------------
(* Text *)

Chars(s) == [i \in 1..Len(s) |-> SubSeq(s, i, i)]

Digit == {"0", "1", "2", "3", "4", "5", "6", "7", "8", "9"}

DigitVal(c) ==
    CASE c = "0" -> 0 [] c = "1" -> 1 [] c = "2" -> 2 [] c = "3" -> 3
      [] c = "4" -> 4 [] c = "5" -> 5 [] c = "6" -> 6 [] c = "7" -> 7
      [] c = "8" -> 8 [] c = "9" -> 9

LowerAlpha == Chars("abcdefghijklmnopqrstuvwxyz")
UpperAlpha == Chars("ABCDEFGHIJKLMNOPQRSTUVWXYZ")

LowerChar(c) ==
    IF \E i \in 1..26 : UpperAlpha[i] = c
    THEN LowerAlpha[CHOOSE i \in 1..26 : UpperAlpha[i] = c]
    ELSE c

UpperChar(c) ==
    IF \E i \in 1..26 : LowerAlpha[i] = c
    THEN UpperAlpha[CHOOSE i \in 1..26 : LowerAlpha[i] = c]
    ELSE c

Lower(s) == [i \in 1..Len(s) |-> LowerChar(s[i])]
Upper(s) == [i \in 1..Len(s) |-> UpperChar(s[i])]

SetMin(S) == CHOOSE x \in S : \A y \in S : x <= y
SetMax(S) == CHOOSE x \in S : \A y \in S : x >= y

IsSpace(c) == c = " "

\* str.strip()
Strip(s) ==
    LET keep == {i \in 1..Len(s) : ~IsSpace(s[i])}
    IN  IF keep = {} THEN <<>> ELSE SubSeq(s, SetMin(keep), SetMax(keep))

\* str.replace(c, "") for every character c of cs
Remove(s, cs) == SelectSeq(s, LAMBDA c : c \notin cs)

\* the literal lit stands in s at position i
HasAt(s, i, lit) ==
    /\ i >= 1
    /\ i + Len(lit) - 1 <= Len(s)
    /\ SubSeq(s, i, i + Len(lit) - 1) = lit

\* the end (exclusive) of the greedy \d+ that starts at i
RunEnd(s, i) ==
    SetMin({j \in i..(Len(s) + 1) : j = Len(s) + 1 \/ s[j] \notin Digit})

----------------------------------------------------------------------------
(* Numbers *)

None == <<>>
NaN == <<0, 0>>

RECURSIVE GCD(_, _)
GCD(a, b) == IF b = 0 THEN a ELSE GCD(b, a % b)

Abs(n) == IF n < 0 THEN -n ELSE n

Frac(n, d) ==
    LET g == GCD(Abs(n), d) IN <<n \div g, d \div g>>

IsFinite(q) == q # None /\ q[2] > 0

RMul(a, b) == Frac(a[1] * b[1], a[2] * b[2])

\* a / b for a finite b > 0; nan and inf divide to themselves
RDiv(a, b) == IF a[2] = 0 THEN a ELSE Frac(a[1] * b[2], a[2] * b[1])

RLess(a, b) == a[1] * b[2] < b[1] * a[2]

RECURSIVE Pow10(_)
Pow10(k) == IF k = 0 THEN 1 ELSE 10 * Pow10(k - 1)

RECURSIVE DigitsVal(_)
DigitsVal(s) ==
    IF s = <<>> THEN 0
    ELSE 10 * DigitsVal(SubSeq(s, 1, Len(s) - 1)) + DigitVal(s[Len(s)])

IsDigits(s) == \A i \in 1..Len(s) : s[i] \in Digit

\* the value of digits, digits "." digits, digits "." or "." digits
DecimalVal(s) ==
    LET dots == {i \in 1..Len(s) : s[i] = "."}
    IN  IF dots = {} THEN Frac(DigitsVal(s), 1)
        ELSE LET p == SetMin(dots)
                 ip == SubSeq(s, 1, p - 1)
                 fp == SubSeq(s, p + 1, Len(s))
             IN  Frac(DigitsVal(ip) * Pow10(Len(fp)) + DigitsVal(fp),
                      Pow10(Len(fp)))

IsDecimal(s) ==
    LET dots == {i \in 1..Len(s) : s[i] = "."}
    IN  /\ Cardinality(dots) <= 1
        /\ \A i \in 1..Len(s) : s[i] \in Digit \cup {"."}
        /\ \E i \in 1..Len(s) : s[i] \in Digit

\* Python float(s): surrounding blanks, a sign, a decimal numeral, nan, inf
\* and infinity in any case.  Exponents and digit-group underscores are not
\* modelled.  [ok |-> FALSE] is ValueError.
ParseFloat(s) ==
    LET t == Lower(Strip(s))
        neg == t # <<>> /\ t[1] = "-"
        u == IF t # <<>> /\ t[1] \in {"-", "+"} THEN Tail(t) ELSE t
    IN  IF u = Chars("nan") THEN [ok |-> TRUE, val |-> NaN]
        ELSE IF u \in {Chars("inf"), Chars("infinity")}
        THEN [ok |-> TRUE, val |-> IF neg THEN <<-1, 0>> ELSE <<1, 0>>]
        ELSE IF IsDecimal(u)
        THEN [ok |-> TRUE,
              val |-> IF neg THEN RMul(<<-1, 1>>, DecimalVal(u))
                      ELSE DecimalVal(u)]
        ELSE [ok |-> FALSE, val |-> None]

----------------------------------------------------------------------------
(* prepare_data.py: the field extractor *)

to_float_price(x) ==
    IF x = None THEN None
    ELSE LET s == Remove(Strip(x), {"$", ","})
         IN  IF s = <<>> THEN None
             ELSE LET f == ParseFloat(s)
                  IN  IF f.ok THEN f.val ELSE None

\* where the numeric group of (\d+(?:\.\d+)?)(mg) ends (exclusive) when the
\* pattern matches at i, 0 when it does not
MgMatchEnd(s, i) ==
    IF i > Len(s) \/ s[i] \notin Digit THEN 0
    ELSE LET j == RunEnd(s, i)
             k == IF /\ j + 1 <= Len(s)
                     /\ s[j] = "."
                     /\ s[j + 1] \in Digit
                  THEN RunEnd(s, j + 1) ELSE 0
         IN  IF k > 0 /\ HasAt(s, k, Chars("mg")) THEN k
             ELSE IF HasAt(s, j, Chars("mg")) THEN j
             ELSE 0

extract_mg(text) ==
    IF text = None \/ text = <<>> THEN None
    ELSE LET s == Remove(Lower(text), {" "})
             at == {i \in 1..Len(s) : MgMatchEnd(s, i) > 0}
         IN  IF at = {} THEN None
             ELSE LET i == SetMin(at)
                  IN  DecimalVal(SubSeq(s, i, MgMatchEnd(s, i) - 1))

\* (\d+)vials matched at i
VialsMatchAt(s, i) ==
    /\ i <= Len(s)
    /\ s[i] \in Digit
    /\ HasAt(s, RunEnd(s, i), Chars("vials"))

\* x(\d+)vials matched at i
XVialsMatchAt(s, i) ==
    /\ i <= Len(s)
    /\ s[i] = "x"
    /\ VialsMatchAt(s, i + 1)

extract_vials(text) ==
    IF text = None \/ text = <<>> THEN None
    ELSE LET s == Remove(Lower(text), {" "})
             at == {i \in 1..Len(s) : VialsMatchAt(s, i)}
             xat == {i \in 1..Len(s) : XVialsMatchAt(s, i)}
         IN  IF at # {}
             THEN LET i == SetMin(at)
                  IN  Frac(DigitsVal(SubSeq(s, i, RunEnd(s, i) - 1)), 1)
             ELSE IF xat # {}
             THEN LET i == SetMin(xat) + 1
                  IN  Frac(DigitsVal(SubSeq(s, i, RunEnd(s, i) - 1)), 1)
             ELSE None

\* Python truth of an optional number: None and 0 are false, nan is true
Truthy(q) == q # None /\ q # <<0, 1>>

\* Python's  a or b
PyOr(a, b) == IF Truthy(a) THEN a ELSE b

DefaultVials == 10

\* a division made safe with "or 1" instead of being skipped
price_per_mg_or_one(price, total_mg) ==
    IF price # None
    THEN RDiv(price, IF Truthy(total_mg) THEN total_mg ELSE <<1, 1>>)
    ELSE None

\* ppm = price / total_mg if (price is not None and total_mg) else None
price_per_mg_of(price, total_mg) ==
    IF price # None /\ Truthy(total_mg) THEN RDiv(price, total_mg) ELSE None

standardize_row(vendor, product_name, spec, price_str, source_file) ==
    LET price == to_float_price(price_str)
        dose_mg_per_vial == PyOr(extract_mg(spec), extract_mg(product_name))
        vials_per_kit == PyOr(extract_vials(spec), <<DefaultVials, 1>>)
        total_mg == IF Truthy(dose_mg_per_vial)
                    THEN RMul(dose_mg_per_vial, vials_per_kit) ELSE None
        ppm == price_per_mg_of(price, total_mg)
    IN  [vendor |-> vendor,
         product_name |-> IF product_name # <<>> THEN Strip(product_name)
                          ELSE <<>>,
         spec_raw |-> IF spec # <<>> THEN Strip(spec) ELSE <<>>,
         price_usd |-> price,
         dose_mg_per_vial |-> dose_mg_per_vial,
         vials_per_kit |-> vials_per_kit,
         total_mg_per_kit |-> total_mg,
         price_per_mg |-> ppm,
         source_file |-> source_file]

----------------------------------------------------------------------------
(* prepare_data.py: the vendor parsers.  A table is a sequence of rows, a   *)
(* row a sequence of cells, a cell a text or NoText; a row of              *)
(* jeep_manual.csv has the cells vendor, product_name, dose_text,           *)
(* price_usd, package_text, an empty field being NoText (NaN).              *)

\* a missing text cell: None in an extracted table, NaN in an object column
\* of a data frame; the empty text is <<>>
NoText == <<"">>

\* str(x) of a cell of an extracted table
StrOf(cell) == IF cell = NoText THEN Chars("None") ELSE cell

\* str(x) of a cell of a row of read_csv
StrOfNa(cell) == IF cell = NoText THEN Chars("nan") ELSE cell

\* bool(x) of a cell
CellTruthy(cell) == cell # NoText /\ cell # <<>>

\* r[k] if len(r) > k else default, k counted from 0
CellOr(r, k, default) == IF Len(r) > k THEN r[k + 1] ELSE default

\* not r or not r[0]
SkipRow(r) == r = <<>> \/ ~CellTruthy(r[1])

\* the first row whose first cell is "Code", 0 without one
HybHeader(rows) ==
    LET at == {i \in 1..Len(rows) :
                  rows[i] # <<>> /\ Strip(StrOf(rows[i][1])) = Chars("Code")}
    IN  IF at = {} THEN 0 ELSE SetMin(at)

\* parse_hyb on one table: every row after the header with a code is emitted
parse_hyb(rows) ==
    LET header_idx == HybHeader(rows)
        kept == IF header_idx = 0 THEN <<>>
                ELSE SelectSeq([i \in 1..Len(rows) |-> i],
                               LAMBDA i : i > header_idx /\ ~SkipRow(rows[i]))
    IN  [n \in 1..Len(kept) |->
            LET r == rows[kept[n]]
                name == CellOr(r, 1, <<>>)
                spec == CellOr(r, 2, <<>>)
                price_1kit == CellOr(r, 3, NoText)
            IN  [row |-> kept[n],
                 rec |-> standardize_row("HYB", StrOf(name), StrOf(spec),
                             StrOf(price_1kit),
                             "HYB-Price List - Overview.pdf")]]

RECURSIVE CnRowsFrom(_, _, _)
\* the loop of parse_cn_full from row i on, current_name carried along
CnRowsFrom(rows, i, current_name) ==
    IF i > Len(rows) THEN <<>>
    ELSE LET r == rows[i]
         IN  IF SkipRow(r) THEN CnRowsFrom(rows, i + 1, current_name)
             ELSE LET name == IF Len(r) > 1 /\ CellTruthy(r[2]) THEN r[2]
                              ELSE current_name
                      spec == CellOr(r, 2, <<>>)
                      price == CellOr(r, 3, NoText)
                  IN  IF ~CellTruthy(name) \/ ~CellTruthy(price)
                      THEN CnRowsFrom(rows, i + 1, name)
                      ELSE <<[row |-> i,
                              rec |-> standardize_row("HXTNT", StrOf(name),
                                          StrOf(spec), StrOf(price),
                                          "HXTNT-Lucy-price list.pdf")]>>
                           \o CnRowsFrom(rows, i + 1, name)

\* parse_cn_full on one table
parse_cn_full(rows) ==
    IF rows = <<>> THEN <<>>
    ELSE LET first == rows[1]
             has_header == /\ first # <<>>
                           /\ \E k \in 1..Len(StrOf(first[1])) :
                                 HasAt(StrOf(first[1]), k, Chars("Cat. No."))
         IN  CnRowsFrom(rows, IF has_header THEN 2 ELSE 1, NoText)

\* parse_jeep_csv on the rows of jeep_manual.csv
parse_jeep_csv(rows) ==
    [i \in 1..Len(rows) |->
        LET r == rows[i]
            name == r[2]
            dose == r[3]
            price == r[4]
            pkg == r[5]
            spec == StrOfNa(dose) \o <<" ">> \o StrOfNa(pkg)
        IN  [row |-> i,
             rec |-> standardize_row(r[1], StrOfNa(name), spec,
                         StrOfNa(price), "jeep_manual.csv")]]

----------------------------------------------------------------------------
(* app/app.py: the canonical name resolver *)

\* \w of the regular expressions
IsWord(c) ==
    \/ c \in Digit
    \/ c = "_"
    \/ \E i \in 1..26 : UpperAlpha[i] = c \/ LowerAlpha[i] = c

\* \b at the gap before position i of s
Boundary(s, i) ==
    LET before == i > 1 /\ IsWord(s[i - 1])
        after == i <= Len(s) /\ IsWord(s[i])
    IN  before # after

\* the end (exclusive) of the greedy \s* that starts at i
SpaceEnd(s, i) ==
    SetMin({j \in i..(Len(s) + 1) : j = Len(s) + 1 \/ ~IsSpace(s[j])})

DoseUnits == <<Chars("MG"), Chars("MCG"), Chars("UG"), Chars("IU")>>

\* the end (exclusive) of (MG|MCG|UG|IU)\b at i, 0 when none matches
UnitEnd(s, i) ==
    LET ok == {u \in 1..Len(DoseUnits) :
                  /\ HasAt(s, i, DoseUnits[u])
                  /\ Boundary(s, i + Len(DoseUnits[u]))}
    IN  IF ok = {} THEN 0 ELSE i + Len(DoseUnits[SetMin(ok)])

\* the end (exclusive) of \b\d+(\.\d+)?\s*(MG|MCG|UG|IU)\b matched at i, 0
\* when it does not match there
DoseTokenEnd(s, i) ==
    IF i > Len(s) \/ s[i] \notin Digit \/ ~Boundary(s, i) THEN 0
    ELSE LET j == RunEnd(s, i)
             k == IF /\ j + 1 <= Len(s)
                     /\ s[j] = "."
                     /\ s[j + 1] \in Digit
                  THEN RunEnd(s, j + 1) ELSE 0
             withFrac == IF k > 0 THEN UnitEnd(s, SpaceEnd(s, k)) ELSE 0
         IN  IF withFrac > 0 THEN withFrac
             ELSE UnitEnd(s, SpaceEnd(s, j))

RECURSIVE RemoveDoseTokens(_, _)
\* .str.replace(r"\b\d+(\.\d+)?\s*(MG|MCG|UG|IU)\b", "", regex=True) from i on
RemoveDoseTokens(s, i) ==
    IF i > Len(s) THEN <<>>
    ELSE LET e == DoseTokenEnd(s, i)
         IN  IF e > 0 THEN RemoveDoseTokens(s, e)
             ELSE <<s[i]>> \o RemoveDoseTokens(s, i + 1)

\* .str.replace(r"[-_]", " ", regex=True)
HyphensToSpaces(s) ==
    [i \in 1..Len(s) |-> IF s[i] \in {"-", "_"} THEN " " ELSE s[i]]

\* the character classes of the two collapsing replacements
InClass(class, c) ==
    IF class = "nonword" THEN ~IsWord(c) ELSE IsSpace(c)

RECURSIVE CollapseRuns(_, _, _)
\* every maximal run of characters of the class replaced by one blank:
\* .str.replace(r"[^\w]+", " ") and .str.replace(r"\s+", " ")
CollapseRuns(s, i, class) ==
    IF i > Len(s) THEN <<>>
    ELSE IF InClass(class, s[i])
    THEN IF i > 1 /\ InClass(class, s[i - 1])
         THEN CollapseRuns(s, i + 1, class)
         ELSE <<" ">> \o CollapseRuns(s, i + 1, class)
    ELSE <<s[i]>> \o CollapseRuns(s, i + 1, class)

\* Step 1: the cleaned name
Cleanup(product_name) ==
    LET up == Upper(product_name)
        nodose == RemoveDoseTokens(up, 1)
        nohyphen == HyphensToSpaces(nodose)
        words == CollapseRuns(nohyphen, 1, "nonword")
        single == CollapseRuns(words, 1, "space")
    IN  Strip(single)

StartsWith(s, lit) == HasAt(s, 1, lit)
Contains(s, lit) == \E i \in 1..Len(s) : HasAt(s, i, lit)
NoSpaces(s) == Remove(s, {" "})

Rule(kind, a, b, v) ==
    [kind |-> kind, a |-> Chars(a), b |-> Chars(b), v |-> Chars(v)]

\* the RETA / TIRZE / SEMA rules
BaseRules == <<
    Rule("startswith", "RETA", "", "RETATRUTIDE"),
    Rule("startswith", "TIRZE", "", "TIRZEPATIDE"),
    Rule("startswith", "SEMA", "", "SEMAGLUTIDE") >>

\* the alias normalization block, in the order of its statements
AliasRules == <<
    Rule("exact", "SS 31", "", "SS-31"),
    Rule("startswith", "ARA 290", "", "ARA-290"),
    Rule("startswith", "SNAP 8", "", "SNAP-8"),
    Rule("startswith", "BPC 157", "", "BPC 157"),
    Rule("contains", "BAC WATER", "", "BACTERIOSTATIC WATER"),
    Rule("contains", "BACTERIOSTATIC", "", "BACTERIOSTATIC WATER"),
    Rule("startswith", "BPC TB", "", "BPC TB BLEND"),
    Rule("contains2", "TB", "BPC", "BPC TB BLEND"),
    Rule("startswith", "CAGR", "", "CAGRILINTIDE"),
    Rule("contains", "EPITHALON", "", "EPITHALON"),
    Rule("contains", "EPITALON", "", "EPITHALON"),
    Rule("startswith", "GLUTATHIONE", "", "GLUTATHIONE"),
    Rule("contains", "MAZDU", "", "MAZDUTIDE"),
    Rule("nospace_equals", "MOTSC", "", "MOTS C"),
    Rule("contains2", "CJC", "NO DAC", "CJC NO DAC"),
    Rule("contains2", "CJC", "WITHOUT DAC", "CJC NO DAC"),
    Rule("contains2", "CJC", "WHITOUT DAC", "CJC NO DAC"),
    Rule("contains2", "CJC", "IPA", "CJC NO DAC IPA"),
    Rule("contains", "MELANOTAN 1", "", "MELANOTAN I"),
    Rule("contains", "MELANOTAN I", "", "MELANOTAN I"),
    Rule("exact", "MELANOTAN", "", "MELANOTAN I"),
    Rule("exact", "MT 1", "", "MELANOTAN I"),
    Rule("startswith", "KLOW", "", "KLOW"),
    Rule("contains", "KLOW TB BP KP GHK", "", "KLOW"),
    Rule("contains", "BPC GHK CU TB KPV", "", "KLOW"),
    Rule("startswith", "GLOW", "", "GLOW"),
    Rule("contains", "GLOW TB BP GHK", "", "GLOW"),
    Rule("contains", "GLOW TBMG", "", "GLOW"),
    Rule("contains_not", "BPC GHK CU TB", "KPV", "GLOW"),
    Rule("exact", "HCG", "", "HUMAN CHORIONIC GONADOTROPIN"),
    Rule("contains", "CHORIONIC", "", "HUMAN CHORIONIC GONADOTROPIN"),
    Rule("nospace_contains", "PEGMGF", "", "PEG MGF"),
    Rule("startswith", "AOD", "", "AOD-9604"),
    Rule("startswith", "FOXO4", "", "FOXO4-DRI"),
    Rule("contains", "IGF", "", "IGF-1 LR3"),
    Rule("startswith", "KISSPEPTIN", "", "KISSPEPTIN-10"),
    Rule("startswith", "L CARNITINE", "", "L-CARNITINE"),
    Rule("optional_space", "LL", "37", "LL-37"),
    Rule("optional_space", "PT", "141", "PT-141") >>

\* the mask of one rule on the column value cp
Matches(cp, r) ==
    CASE r.kind = "startswith" -> StartsWith(cp, r.a)
      [] r.kind = "contains" -> Contains(cp, r.a)
      [] r.kind = "contains2" -> Contains(cp, r.a) /\ Contains(cp, r.b)
      [] r.kind = "contains_not" -> Contains(cp, r.a) /\ ~Contains(cp, r.b)
      [] r.kind = "exact" -> cp = r.a
      [] r.kind = "nospace_equals" -> NoSpaces(cp) = r.a
      [] r.kind = "nospace_contains" -> Contains(NoSpaces(cp), r.a)
      [] r.kind = "optional_space" ->
            cp = r.a \o r.b \/ cp = r.a \o <<" ">> \o r.b

RECURSIVE ApplyRules(_, _, _, _)
\* the assignments df.loc[mask, "canonical_peptide"] = value of rules[i..],
\* every mask taken on cp, starting from the column value cur
ApplyRules(rules, i, cp, cur) ==
    IF i > Len(rules) THEN cur
    ELSE ApplyRules(rules, i + 1, cp,
                    IF Matches(cp, rules[i]) THEN rules[i].v ELSE cur)

\* cp of the alias block: the column as the base rules left it
\* cp of the alias block had it been kept from before the base rules
AliasInputStale(afterBase, cleaned) == cleaned

\* cp = df["canonical_peptide"].str.upper().fillna(""): the alias block reads
\* the column again, as the base rules left it
AliasInput(afterBase, cleaned) == Upper(afterBase)

Resolve(product_name) ==
    LET cleaned == Cleanup(product_name)
        afterBase == ApplyRules(BaseRules, 1, cleaned, cleaned)
    IN  ApplyRules(AliasRules, 1, AliasInput(afterBase, cleaned), afterBase)

----------------------------------------------------------------------------
(* prepare_data.py main and app.py load_data: the master file *)

NumericCols == {"price_usd", "dose_mg_per_vial", "vials_per_kit",
                "total_mg_per_kit", "price_per_mg"}

\* pd.NA / NaN of a column
NA(col) == IF col \in NumericCols THEN None ELSE NoText

IsUpperAlnumHyphen(c) ==
    c \in Digit \/ c = "-" \/ \E i \in 1..26 : UpperAlpha[i] = c

RECURSIVE CollapseNonKey(_, _)
\* .str.replace(r"[^A-Z0-9\-]+", " ", regex=True)
CollapseNonKey(s, i) ==
    IF i > Len(s) THEN <<>>
    ELSE IF ~IsUpperAlnumHyphen(s[i])
    THEN IF i > 1 /\ ~IsUpperAlnumHyphen(s[i - 1])
         THEN CollapseNonKey(s, i + 1)
         ELSE <<" ">> \o CollapseNonKey(s, i + 1)
    ELSE <<s[i]>> \o CollapseNonKey(s, i + 1)

peptide_key(product_name) ==
    Strip(CollapseNonKey(Upper(product_name), 1))

\* the cells pandas reads back as missing
NaTexts == {Chars(""), Chars("nan"), Chars("NaN"), Chars("NA"),
            Chars("N/A"), Chars("n/a"), Chars("NULL"), Chars("null")}

\* a text cell written by to_csv and read by read_csv
CsvText(t) == IF t \in NaTexts THEN NoText ELSE t

\* a numeric cell written by to_csv and read by read_csv: None and nan are
\* both the empty cell
CsvNumber(q) == IF q = None \/ q = NaN THEN None ELSE q

\* one row of peptide_prices_master.csv as load_data returns it
MasterRow(r) ==
    [vendor |-> r.vendor,
     product_name |-> CsvText(r.product_name),
     spec_raw |-> CsvText(r.spec_raw),
     price_usd |-> CsvNumber(r.price_usd),
     dose_mg_per_vial |-> CsvNumber(r.dose_mg_per_vial),
     vials_per_kit |-> CsvNumber(r.vials_per_kit),
     total_mg_per_kit |-> CsvNumber(r.total_mg_per_kit),
     price_per_mg |-> CsvNumber(r.price_per_mg),
     source_file |-> CsvText(Chars(r.source_file)),
     peptide_key |-> CsvText(peptide_key(r.product_name))]

BaseCols == {"vendor", "product_name", "spec_raw", "price_usd",
             "dose_mg_per_vial", "vials_per_kit", "total_mg_per_kit",
             "price_per_mg", "source_file", "peptide_key"}

\* the raw tuples the vendor parsers hand to standardize_row
RawTuples == <<
    <<"CN", "BPC 157", "5mg*10vials", "$41">>,
    <<"ZJ", "BPC-157 5mg", "5mg*5vials", "41">>,
    <<"HYB", "Bpc 157", "5mg", "41">>,
    <<"HYB", "Retatrutide", "", "x">>,
    <<"ZJ", "AOD-9604", "10mg*10vials", "40">> >>

MasterRows ==
    [i \in 1..Len(RawTuples) |->
        MasterRow(standardize_row(RawTuples[i][1], Chars(RawTuples[i][2]),
                                  Chars(RawTuples[i][3]),
                                  Chars(RawTuples[i][4]), "list.pdf"))]

\* load_data() of a master file holding the first n rows
load_data(n) == SubSeq(MasterRows, 1, n)

----------------------------------------------------------------------------
(* app.py main: the uploaded vendor files *)

required_cols == {"vendor", "product_name", "spec_raw", "price_usd",
                  "dose_mg_per_vial", "vials_per_kit", "total_mg_per_kit",
                  "price_per_mg"}

\* extra with the missing columns of base_cols added as NA and the columns
\* reordered to base_cols (other columns dropped)
ConformRow(row, base_cols) ==
    [c \in base_cols |-> IF c \in DOMAIN row THEN row[c] ELSE NA(c)]

ConformRows(rows, base_cols) ==
    [i \in 1..Len(rows) |-> ConformRow(rows[i], base_cols)]

RECURSIVE MergeFilesStopping(_, _, _, _)
\* the loop leaving at the first rejected file
MergeFilesStopping(files, i, df0, errs) ==
    IF i > Len(files) THEN [df |-> df0, errors |-> errs]
    ELSE LET f == files[i]
         IN  IF ~f.readable \/ required_cols \ f.columns # {}
             THEN [df |-> df0, errors |-> Append(errs, f.name)]
             ELSE MergeFilesStopping(files, i + 1,
                      df0 \o ConformRows(f.rows, BaseCols), errs)

RECURSIVE MergeFiles(_, _, _, _)
\* for f in uploaded_files[i..]: the frame and the st.sidebar.error messages
\* (by file name) after the loop
MergeFiles(files, i, df0, errs) ==
    IF i > Len(files) THEN [df |-> df0, errors |-> errs]
    ELSE LET f == files[i]
         IN  IF ~f.readable
             THEN MergeFiles(files, i + 1, df0, Append(errs, f.name))
             ELSE IF required_cols \ f.columns # {}
             THEN MergeFiles(files, i + 1, df0, Append(errs, f.name))
             ELSE MergeFiles(files, i + 1,
                      df0 \o ConformRows(f.rows, BaseCols), errs)

----------------------------------------------------------------------------
(* app.py main: canonical names and the 10-vial business rule *)

\* the canonical_peptide column: the .str methods leave a missing name missing
canonical_peptide(product_name) ==
    IF product_name = NoText THEN NoText ELSE Resolve(product_name)

KitVials == 10

\* the override had it used the vial count detected at ingestion
OverrideTotalDetected(r) ==
    IF r.dose_mg_per_vial # None /\ r.vials_per_kit # None
    THEN [r EXCEPT !.total_mg_per_kit =
                       RMul(r.dose_mg_per_vial, r.vials_per_kit)]
    ELSE r

\* mask = df["dose_mg_per_vial"].notna()
\* df.loc[mask, "total_mg_per_kit"] = df.loc[mask, "dose_mg_per_vial"] * 10
OverrideTotal(r) ==
    IF r.dose_mg_per_vial # None
    THEN [r EXCEPT !.total_mg_per_kit =
                       RMul(r.dose_mg_per_vial, <<KitVials, 1>>)]
    ELSE r

\* a row of the frame with its canonical_peptide column
WithCanonical(r) ==
    [c \in BaseCols \cup {"canonical_peptide"} |->
        IF c = "canonical_peptide" THEN canonical_peptide(r.product_name)
        ELSE r[c]]

\* lines 105-221 on the whole frame
NormalizeFrame(frame) ==
    [i \in 1..Len(frame) |-> OverrideTotal(WithCanonical(frame[i]))]

----------------------------------------------------------------------------
(* app.py main: filters, grouping, pivot *)

ColumnValues(frame, col) == {frame[i][col] : i \in 1..Len(frame)}

\* filt after the three sidebar filters; an empty multiselect filters nothing
ApplyFilterTo(frame, selected_peptides, selected_vendors, only_with_ppm) ==
    SelectSeq(frame, LAMBDA r :
        /\ selected_peptides # {} => r.canonical_peptide \in selected_peptides
        /\ selected_vendors # {} => r.vendor \in selected_vendors
        /\ only_with_ppm => r.price_per_mg # None)

\* min of a column over a group, missing values skipped
MinOf(S) ==
    LET present == S \ {None}
    IN  IF present = {} THEN None
        ELSE CHOOSE x \in present : \A y \in present : ~RLess(y, x)

\* the rows groupby keeps: dropna on dose, and no missing group key
Groupable(r) ==
    /\ r.dose_mg_per_vial # None
    /\ r.total_mg_per_kit # None
    /\ r.canonical_peptide # NoText

\* grouped: one record per (canonical_peptide, dose, total, vendor) with the
\* minimum price_usd and the minimum price_per_mg of the group
GroupedOf(frame) ==
    LET rows == {i \in 1..Len(frame) : Groupable(frame[i])}
        KeyOf(r) == <<r.canonical_peptide, r.dose_mg_per_vial,
                      r.total_mg_per_kit, r.vendor>>
        keys == {KeyOf(frame[i]) : i \in rows}
    IN  {[canonical_peptide |-> k[1],
          dose_mg_per_vial |-> k[2],
          total_mg_per_kit |-> k[3],
          vendor |-> k[4],
          price_usd |->
              MinOf({frame[i].price_usd : i \in {j \in rows : KeyOf(frame[j]) = k}}),
          price_per_mg |->
              MinOf({frame[i].price_per_mg : i \in {j \in rows : KeyOf(frame[j]) = k}})]
         : k \in keys}

RowOf(g) == <<g.canonical_peptide, g.dose_mg_per_vial, g.total_mg_per_kit>>

\* pivot_table(index=..., columns="vendor", values=[price_usd, price_per_mg],
\* aggfunc="min"): groups whose two values are both missing are dropped, and
\* so is every (value, vendor) column that is missing in all rows
PivotOf(groups) ==
    LET agged == {g \in groups : g.price_usd # None \/ g.price_per_mg # None}
        Cell(field, row, v) ==
            LET gs == {g \in agged : RowOf(g) = row /\ g.vendor = v}
            IN  IF gs = {} THEN None ELSE (CHOOSE g \in gs : TRUE)[field]
        index == {RowOf(g) : g \in agged}
        price_cols == {g.vendor : g \in {a \in agged : a.price_usd # None}}
        ppm_cols == {g.vendor : g \in {a \in agged : a.price_per_mg # None}}
    IN  [index |-> index,
         price_cols |-> price_cols,
         ppm_cols |-> ppm_cols,
         price_usd |-> [row \in index |->
                          [v \in price_cols |-> Cell("price_usd", row, v)]],
         price_per_mg |-> [row \in index |->
                          [v \in ppm_cols |-> Cell("price_per_mg", row, v)]]]

----------------------------------------------------------------------------
(* app.py main: rank of price_per_mg per row, display cells, row keys *)

\* the rank of a missing entry (NaN)
NoRank == 0

RECURSIVE SortAscending(_, _)
\* the columns of one row in ascending order of their values
SortAscending(cols, val) ==
    IF cols = {} THEN <<>>
    ELSE LET m == CHOOSE v \in cols : \A w \in cols : ~RLess(val[w], val[v])
         IN  <<m>> \o SortAscending(cols \ {m}, val)

\* rank(method="dense"): the number of distinct values up to the entry's own
RankDense(val, v) ==
    IF val[v] = None THEN NoRank
    ELSE Cardinality({val[w] : w \in {u \in DOMAIN val :
                          val[u] # None /\ ~RLess(val[v], val[u])}})

\* DataFrame.rank(axis=1, method="min", ascending=True) of one row: the
\* present entries are sorted, an entry's rank is the first position its
\* value takes in the sorted order, a missing entry has no rank
RankMin(val, v) ==
    IF val[v] = None THEN NoRank
    ELSE LET present == {w \in DOMAIN val : val[w] # None}
             order == SortAscending(present, val)
         IN  SetMin({i \in 1..Len(order) : val[order[i]] = val[v]})

\* ranks of the price_per_mg columns of the vendors of vendor_names
RanksOf(pivot, vendors) ==
    LET ppm_col_map == vendors \cap pivot.ppm_cols
    IN  [row \in pivot.index |->
            [v \in ppm_col_map |->
                RankMin([w \in ppm_col_map |-> pivot.price_per_mg[row][w]], v)]]

EmptyCell == [marker |-> "", price |-> None, ppm |-> None]

MarkerOf(is_best, is_second) ==
    IF is_best THEN "best" ELSE IF is_second THEN "second" ELSE ""

\* the vendor columns of display: a column for every vendor of vendor_names
\* that has a price_usd column in pivot
DisplayOf(pivot, vendors) ==
    LET rk == RanksOf(pivot, vendors)
        ranked == vendors \cap pivot.ppm_cols
        Rank(row, v) == IF v \in ranked THEN rk[row][v] ELSE NoRank
        Ppm(row, v) == IF v \in pivot.ppm_cols
                       THEN pivot.price_per_mg[row][v] ELSE None
    IN  [row \in pivot.index |->
            [v \in vendors \cap pivot.price_cols |->
                IF pivot.price_usd[row][v] = None THEN EmptyCell
                ELSE [marker |-> MarkerOf(Rank(row, v) = 1, Rank(row, v) = 2),
                      price |-> pivot.price_usd[row][v],
                      ppm |-> Ppm(row, v)]]]

DigitChar(k) == Chars("0123456789")[k + 1]

RECURSIVE IntChars(_)
IntChars(n) ==
    IF n < 10 THEN <<DigitChar(n)>>
    ELSE IntChars(n \div 10) \o <<DigitChar(n % 10)>>

RECURSIVE FracChars(_, _, _)
\* at most k decimals of r / d, 0 <= r < d
FracChars(r, d, k) ==
    IF r = 0 \/ k = 0 THEN <<>>
    ELSE <<DigitChar((r * 10) \div d)>> \o FracChars((r * 10) % d, d, k - 1)

\* str() of a float below 1e16: "5.0", "2.5"
FormatFloat(q) ==
    LET n == Abs(q[1])
        r == n % q[2]
    IN  (IF q[1] < 0 THEN <<"-">> ELSE <<>>)
        \o IntChars(n \div q[2]) \o <<".">>
        \o (IF r = 0 THEN <<"0">> ELSE FracChars(r, q[2], 17))

\* f"{r['Peptide']}|{r['Dose (mg/vial)']}|{r['Total mg/kit']}"
row_key(row) ==
    row[1] \o <<"|">> \o FormatFloat(row[2]) \o <<"|">> \o FormatFloat(row[3])

\* new_keys_set had the unchecked visible rows been kept
NewKeysKeepAll(prev, visible, checked) ==
    prev \cup checked

\* new_keys_set had the rows outside the view been forgotten
NewKeysCheckedOnly(prev, visible, checked) ==
    checked

\* prev_outside_view = prev_keys_set - visible_keys
\* new_keys_set = prev_outside_view | checked_keys
NewKeys(prev, visible, checked) ==
    LET prev_outside_view == prev \ visible
    IN  prev_outside_view \cup checked

----------------------------------------------------------------------------
(* app.py main: decoding the stored keys and the price list by vendor *)

RECURSIVE SplitOn(_, _)
\* str.split(sep) for a one-character sep
SplitOn(s, sep) ==
    LET at == {i \in 1..Len(s) : s[i] = sep}
    IN  IF at = {} THEN <<s>>
        ELSE <<SubSeq(s, 1, SetMin(at) - 1)>>
             \o SplitOn(SubSeq(s, SetMin(at) + 1, Len(s)), sep)

\* try: float(x) except ValueError: None
FloatOrNone(x) ==
    LET f == ParseFloat(x) IN IF f.ok THEN f.val ELSE None

\* pep, dose_str, total_str = key.split("|") raises ValueError unless the
\* key has exactly three components
Unpacks(key) == Len(SplitOn(key, "|")) = 3

\* the triple appended for one key that unpacks
DecodeKey(key) ==
    LET parts == SplitOn(key, "|")
    IN  <<parts[1], FloatOrNone(parts[2]), FloatOrNone(parts[3])>>

RAdd(a, b) == Frac(a[1] * b[2] + b[1] * a[2], a[2] * b[2])

RECURSIVE SumOf(_)
\* Series.sum(skipna=True) of the values of a function
SumOf(col) ==
    IF DOMAIN col = {} THEN <<0, 1>>
    ELSE LET k == CHOOSE x \in DOMAIN col : TRUE
             rest == SumOf([x \in DOMAIN col \ {k} |-> col[x]])
         IN  IF col[k] = None THEN rest ELSE RAdd(col[k], rest)

\* the orders sort_values may leave the vendors in: ascending by total,
\* equal totals in any order
AscendingOrders(totals) ==
    LET n == Cardinality(DOMAIN totals)
    IN  {o \in [1..n -> DOMAIN totals] :
            /\ \A i, j \in 1..n : i # j => o[i] # o[j]
            /\ \A i \in 1..n : \A j \in 1..n :
                  i < j => ~RLess(totals[o[j]], totals[o[i]])}

\* lines 426-474 up to the order of the vendor columns: the message shown,
\* or the rows, retained vendors, cells and totals of the price list
PriceTableOf(keys, groups) ==
    LET joined == {<<k, g>> \in keys \X groups :
                      /\ g.canonical_peptide = k[1]
                      /\ g.dose_mg_per_vial = k[2]
                      /\ g.total_mg_per_kit = k[3]}
        priced == {m \in joined : m[2].price_usd # None}
        rows == {<<m[1][1], m[1][2]>> : m \in priced}
        has_any == {m[2].vendor : m \in priced}
        Cell(row, v) ==
            MinOf({m[2].price_usd : m \in {x \in priced :
                      /\ <<x[1][1], x[1][2]>> = row
                      /\ x[2].vendor = v}})
        cells == [row \in rows |-> [v \in has_any |-> Cell(row, v)]]
    IN  IF keys = {} THEN [shown |-> "select rows"]
        ELSE IF rows = {} THEN [shown |-> "no prices"]
        ELSE [shown |-> "table",
              rows |-> rows,
              cells |-> cells,
              vendor_totals |-> [v \in has_any |->
                                   SumOf([row \in rows |-> cells[row][v]])]]

----------------------------------------------------------------------------
(* SpecStd: standardize_row applied to one raw tuple *)

MaxPriceLen == 2
MaxSpecParts == 2

RECURSIVE StringsUpTo(_, _)
\* every concatenation of at most n members of parts
StringsUpTo(parts, n) ==
    IF n = 0 THEN {<<>>}
    ELSE LET shorter == StringsUpTo(parts, n - 1)
         IN  shorter \cup {s \o p : s \in shorter, p \in parts}

PriceParts == {Chars("$"), Chars("4"), Chars("0"), Chars("."), Chars("-")}
SpecParts == {Chars("5mg"), Chars("0mg"), Chars("5vials"), Chars("0vials"),
              Chars("5"), Chars("."), Chars("x")}
StdNames == {Chars("BPC 157"), Chars("Reta 0mg"), Chars("Tirze-30mg")}

PriceStrs == StringsUpTo(PriceParts, MaxPriceLen)
SpecStrs == StringsUpTo(SpecParts, MaxSpecParts)

NoRec == [vendor |-> "none"]

Unset == <<"unset">>

StdIdle == raw = NoRec /\ rec = NoRec
ResIdle == rname = Unset /\ rcanon = Unset /\ rcanon2 = Unset

NotRun == <<[row |-> 0]>>

AdaptIdle == adapter = "none" /\ table = <<>> /\ emitted = NotRun

\* no price list is shown
NoList == [shown |-> "nothing"]

\* nothing of a run of main() is held
RunBlank ==
    /\ uploaded_files = <<>>
    /\ merged = <<>>
    /\ errors = <<>>
    /\ df = <<>>
    /\ filt = <<>>
    /\ grouped = {}
    /\ vendor_names = {}
    /\ ranks = <<>>
    /\ display = <<>>
    /\ visible_keys = {}
    /\ prev_keys_set = {}
    /\ checked_keys = {}
    /\ selected_keys = {}
    /\ price_list = NoList

AppIdle ==
    /\ pc = "off"
    /\ master_rows = 0
    /\ session = {}
    /\ outcome = ""
    /\ RunBlank

InitStd ==
    /\ raw \in [product_name : StdNames, spec : SpecStrs, price : PriceStrs]
    /\ rec = NoRec
    /\ ResIdle
    /\ AppIdle
    /\ AdaptIdle

Standardize ==
    /\ rec = NoRec
    /\ rec' = standardize_row("HYB", raw.product_name, raw.spec, raw.price,
                              "list.pdf")
    /\ UNCHANGED <<raw, resVars, appVars, adaptVars>>

NextStd == Standardize

SpecStd == InitStd /\ [][NextStd]_vars

\* C5: a record returned by standardize_row has price_per_mg present exactly
\* when price_usd is present and total_mg_per_kit is present and greater than
\* 0; it is never computed from a zero or absent denominator.
C5_PpmIffPriceAndTotal ==
    rec # NoRec =>
        (rec.price_per_mg # None <=>
            /\ rec.price_usd # None
            /\ rec.total_mg_per_kit # None
            /\ RLess(<<0, 1>>, rec.total_mg_per_kit))

\* a record with a detected vial count other than 10 and a computed
\* price_per_mg
C5_Witness ==
    /\ rec # NoRec
    /\ rec.price_per_mg # None
    /\ rec.vials_per_kit = <<5, 1>>
    /\ rec.price_per_mg = RDiv(rec.price_usd, rec.total_mg_per_kit)

----------------------------------------------------------------------------
(* SpecResolve: the resolver applied to a name, then to its own output *)

MaxNameParts == 3

\* names as vendors list them, at least one for every rule
ProductNames == {Chars(n) : n \in {
    "Retatrutide 10mg", "Reta-15mg", "Tirze-30mg", "Semaglutide 5mg",
    "SS-31 10mg", "ARA-290", "SNAP-8 10mg", "BPC 157", "BPC-157 5mg",
    "Bac Water 10ml", "Bacteriostatic Water", "BPC+TB 10mg",
    "TB10MG+BPC 157", "Cagrilintide 5mg", "Epitalon 10mg", "Epithalon",
    "Glutathione 1500mg", "Mazdutide 10mg", "MOTS-C 10mg", "MOTSC",
    "CJC-1295 NO DAC 5mg", "CJC-1295 without DAC", "CJC whitout DAC",
    "CJC-1295 + IPA 10mg", "Melanotan 1", "Melanotan II 10mg", "Melanotan",
    "MT-1", "KLOW", "KLOW TB+BP+KP+GHK", "BPC+GHK-CU+TB+KPV", "GLOW 70mg",
    "GLOW TB/BP/GHK", "GLOW TBMG", "BPC+GHK-CU+TB", "HCG",
    "Human Chorionic Gonadotropin 5000iu", "PEG-MGF 2mg", "AOD9604 5mg",
    "FOXO4 10mg", "IGF-1 LR3 1mg", "Kisspeptin 10mg", "L-Carnitine 600mg",
    "LL37", "PT-141 10mg", "NAD+ 500mg", "Selank 5mg", "HGH 10iu",
    "Sema + Cagri 5mg", "Tirze/IGF blend", "B12 1mg/ml"}}

NameParts == {Chars("RETA"), Chars("IGF"), Chars("BPC"), Chars("TB"),
              Chars("5"), Chars("MG"), Chars("-"), Chars(" ")}

ResolverNames == ProductNames \cup StringsUpTo(NameParts, MaxNameParts)

InitResolve ==
    /\ rname \in ResolverNames
    /\ rcanon = Unset
    /\ rcanon2 = Unset
    /\ StdIdle
    /\ AdaptIdle
    /\ AppIdle

\* the resolver run on a product_name
ResolveName ==
    /\ rcanon = Unset
    /\ rcanon' = Resolve(rname)
    /\ UNCHANGED <<rname, rcanon2, stdVars, appVars, adaptVars>>

\* the resolver run again, on the canonical_peptide it produced
ResolveAgain ==
    /\ rcanon # Unset
    /\ rcanon2 = Unset
    /\ rcanon2' = Resolve(rcanon)
    /\ UNCHANGED <<rname, rcanon, stdVars, appVars, adaptVars>>

NextResolve == ResolveName \/ ResolveAgain

SpecResolve == InitResolve /\ [][NextResolve]_vars

\* C8: the resolver is idempotent on its own output: resolving the
\* canonical_peptide of any product_name yields that canonical_peptide again.
C8_Idempotent == rcanon2 # Unset => rcanon2 = rcanon

LastHit(rules, cp) ==
    LET hits == {i \in 1..Len(rules) : Matches(cp, rules[i])}
    IN  IF hits = {} THEN 0 ELSE SetMax(hits)

\* C9 as claimed: canonical_peptide is the literal of the last rule, of all
\* rules in their order, whose predicate matches the Step-1 cleaned name, and
\* the cleaned name itself when no rule matches.
C9_LastMatchOnCleaned ==
    rcanon # Unset =>
        LET cleaned == Cleanup(rname)
            all == BaseRules \o AliasRules
            last == LastHit(all, cleaned)
        IN  rcanon = IF last = 0 THEN cleaned ELSE all[last].v

\* C9 as amended: the predicates of the three base rules (RETA, TIRZE, SEMA)
\* are taken on the Step-1 cleaned name; the predicates of all later rules
\* are taken on the name as the base rules left it.  canonical_peptide is the
\* literal of the last later rule matching there, else the literal of the
\* last base rule matching the cleaned name, else the cleaned name.
C9_LastMatchTwoStage ==
    rcanon # Unset =>
        LET cleaned == Cleanup(rname)
            b == LastHit(BaseRules, cleaned)
            afterBase == IF b = 0 THEN cleaned ELSE BaseRules[b].v
            a == LastHit(AliasRules, Upper(afterBase))
        IN  rcanon = IF a = 0 THEN afterBase ELSE AliasRules[a].v

\* a name whose cleaned form matches a base rule and a later rule: the base
\* rule's literal stands, because the later rule no longer matches
C9_Witness ==
    /\ rcanon = Chars("RETATRUTIDE")
    /\ LastHit(AliasRules, Cleanup(rname)) > 0

----------------------------------------------------------------------------
(* Spec: the runs of main() of app.py over one session *)

MaxMasterRows == 2
MaxFiles == 2

UploadRow(vendor, name, spec, price, dose, vials, total, ppm) ==
    [vendor |-> vendor, product_name |-> Chars(name), spec_raw |-> Chars(spec),
     price_usd |-> price, dose_mg_per_vial |-> dose, vials_per_kit |-> vials,
     total_mg_per_kit |-> total, price_per_mg |-> ppm]

WithColumns(row, extra) ==
    [c \in DOMAIN row \cup DOMAIN extra |->
        IF c \in DOMAIN extra THEN extra[c] ELSE row[c]]

\* a file without the price_per_mg column
BadFile ==
    LET row == UploadRow("UT", "TB-500", "5mg*10vials", <<60, 1>>, <<5, 1>>,
                         <<10, 1>>, <<50, 1>>, <<6, 5>>)
    IN  [name |-> "bad.csv", readable |-> TRUE,
         columns |-> required_cols \ {"price_per_mg"},
         rows |-> <<[c \in required_cols \ {"price_per_mg"} |-> row[c]]>>]

\* a file with the required columns and one more, without the optional ones;
\* its first row has a price per mg and no price
UtFile ==
    [name |-> "ut.csv", readable |-> TRUE,
     columns |-> required_cols \cup {"note"},
     rows |-> <<
        WithColumns(UploadRow("UT", "BPC 157", "5mg", None, <<5, 1>>,
                              <<10, 1>>, <<50, 1>>, <<1, 2>>),
                    [note |-> Chars("ask")]),
        WithColumns(UploadRow("UT", "AOD 9604", "10mg", <<40, 1>>, <<10, 1>>,
                              <<10, 1>>, <<100, 1>>, <<2, 5>>),
                    [note |-> NoText]) >>]

\* a file with every column of the master file; its rows report totals that
\* are not ten doses, one of them without a dose
CnFile ==
    [name |-> "cn.csv", readable |-> TRUE,
     columns |-> BaseCols,
     rows |-> <<
        WithColumns(UploadRow("CN", "Selank 5mg", "5mg*2vials", <<30, 1>>,
                              <<5, 1>>, <<2, 1>>, <<7, 1>>, <<3, 1>>),
                    [source_file |-> Chars("cn.csv"),
                     peptide_key |-> Chars("SELANK 5MG")]),
        WithColumns(UploadRow("CN", "Semax", "1 box", <<20, 1>>, None, None,
                              <<7, 1>>, None),
                    [source_file |-> Chars("cn.csv"),
                     peptide_key |-> Chars("SEMAX")]) >>]

\* a file pd.read_csv raises on
UnreadableFile ==
    [name |-> "empty.csv", readable |-> FALSE, columns |-> {}, rows |-> <<>>]

FilePool == {BadFile, UtFile, CnFile, UnreadableFile}

Uploads == UNION {[1..n -> FilePool] : n \in 0..MaxFiles}

Init ==
    /\ pc = "idle"
    /\ master_rows \in 0..MaxMasterRows
    /\ master_rows <= Len(MasterRows)
    /\ session = {}
    /\ outcome = ""
    /\ RunBlank
    /\ StdIdle
    /\ AdaptIdle
    /\ ResIdle

Blank ==
    /\ uploaded_files' = <<>>
    /\ merged' = <<>>
    /\ errors' = <<>>
    /\ df' = <<>>
    /\ filt' = <<>>
    /\ grouped' = {}
    /\ vendor_names' = {}
    /\ ranks' = <<>>
    /\ display' = <<>>
    /\ visible_keys' = {}
    /\ prev_keys_set' = {}
    /\ checked_keys' = {}
    /\ selected_keys' = {}
    /\ price_list' = NoList

\* lines 50-54: the master file is empty
NoData ==
    /\ pc = "idle"
    /\ load_data(master_rows) = <<>>
    /\ outcome' = "no_data"
    /\ UNCHANGED <<pc, master_rows, session, runVars, stdVars, resVars, adaptVars, projVars>>

\* lines 50-103: load the master file and merge the uploaded files
LoadAndMerge ==
    /\ pc = "idle"
    /\ load_data(master_rows) # <<>>
    /\ uploaded_files' \in Uploads
    /\ LET m == MergeFiles(uploaded_files', 1, load_data(master_rows), <<>>)
       IN  /\ merged' = m.df
           /\ errors' = m.errors
    /\ pc' = "merged"
    /\ outcome' = ""
    /\ UNCHANGED <<master_rows, session, df, filt, grouped, vendor_names,
                   ranks, display, visible_keys, prev_keys_set, checked_keys,
                   stdVars, resVars, adaptVars, projVars>>

\* lines 105-221: canonical names and the override of total_mg_per_kit
Normalize ==
    /\ pc = "merged"
    /\ df' = NormalizeFrame(merged)
    /\ pc' = "normalized"
    /\ UNCHANGED <<master_rows, session, uploaded_files, merged, errors, filt,
                   grouped,
                   vendor_names, ranks, display, visible_keys, prev_keys_set,
                   checked_keys, outcome, stdVars, resVars, adaptVars, projVars>>

Filtered(selected_peptides, selected_vendors, only_with_ppm) ==
    ApplyFilterTo(df, selected_peptides, selected_vendors, only_with_ppm)

\* lines 223-253: the filters leave no row
FilterToNothing ==
    /\ pc = "normalized"
    /\ \E selected_peptides \in SUBSET ColumnValues(df, "canonical_peptide"),
          selected_vendors \in SUBSET ColumnValues(df, "vendor"),
          only_with_ppm \in BOOLEAN :
          Filtered(selected_peptides, selected_vendors, only_with_ppm) = <<>>
    /\ pc' = "idle"
    /\ outcome' = "no_rows"
    /\ Blank
    /\ UNCHANGED <<master_rows, session, stdVars, resVars, adaptVars>>

\* lines 223-253: the filters leave some rows
FilterToRows ==
    /\ pc = "normalized"
    /\ \E selected_peptides \in SUBSET ColumnValues(df, "canonical_peptide"),
          selected_vendors \in SUBSET ColumnValues(df, "vendor"),
          only_with_ppm \in BOOLEAN :
          /\ Filtered(selected_peptides, selected_vendors, only_with_ppm) # <<>>
          /\ filt' = Filtered(selected_peptides, selected_vendors, only_with_ppm)
    /\ pc' = "filtered"
    /\ UNCHANGED <<master_rows, session, uploaded_files, merged, errors, df,
                   grouped,
                   vendor_names, ranks, display, visible_keys, prev_keys_set,
                   checked_keys, outcome, stdVars, resVars, adaptVars, projVars>>

\* display[cols] finds every vendor of vendor_names among the columns
HasAllVendorColumns(frame) ==
    ColumnValues(frame, "vendor") \subseteq PivotOf(GroupedOf(frame)).price_cols

\* lines 255-380 raise: a vendor of vendor_names got no display column
TableFails ==
    /\ pc = "filtered"
    /\ ~HasAllVendorColumns(filt)
    /\ pc' = "idle"
    /\ outcome' = "KeyError"
    /\ Blank
    /\ UNCHANGED <<master_rows, session, stdVars, resVars, adaptVars>>

\* lines 255-380: grouped, pivot, ranks, the display table and its row keys
BuildTable ==
    /\ pc = "filtered"
    /\ HasAllVendorColumns(filt)
    /\ LET pivot == PivotOf(GroupedOf(filt))
           names == ColumnValues(filt, "vendor")
       IN  /\ grouped' = GroupedOf(filt)
           /\ vendor_names' = names
           /\ ranks' = RanksOf(pivot, names)
           /\ display' = DisplayOf(pivot, names)
           /\ visible_keys' = {row_key(row) : row \in pivot.index}
    /\ prev_keys_set' = session
    /\ pc' = "displayed"
    /\ UNCHANGED <<master_rows, session, uploaded_files, merged, errors, df,
                   filt, checked_keys, outcome, stdVars, resVars, adaptVars, projVars>>

\* lines 385-401: the editor returns the table with the rows the user checked
EditTable ==
    /\ pc = "displayed"
    /\ checked_keys' \in SUBSET visible_keys
    /\ pc' = "edited"
    /\ UNCHANGED <<master_rows, session, uploaded_files, merged, errors, df,
                   filt, grouped,
                   vendor_names, ranks, display, visible_keys, prev_keys_set,
                   outcome, stdVars, resVars, adaptVars, projVars>>

\* lines 403-407: the stored selection is replaced
UpdateSelection ==
    /\ pc = "edited"
    /\ session' = NewKeys(prev_keys_set, visible_keys, checked_keys)
    /\ pc' = "updated"
    /\ outcome' = "ok"
    /\ UNCHANGED <<master_rows, runVars, stdVars, resVars, adaptVars, projVars>>

\* lines 409-421: the stored keys are decoded; a key that does not unpack
\* into three components raises ValueError out of main()
Decode ==
    /\ pc = "updated"
    /\ IF \A key \in session : Unpacks(key)
       THEN /\ selected_keys' = {DecodeKey(key) : key \in session}
            /\ pc' = "decoded"
            /\ UNCHANGED <<runVars, price_list, outcome>>
       ELSE /\ pc' = "idle"
            /\ outcome' = "ValueError"
            /\ Blank
    /\ UNCHANGED <<master_rows, session, stdVars, resVars, adaptVars>>

\* lines 423-474: the price list by vendor for the selected rows
Project ==
    /\ pc = "decoded"
    /\ LET t == PriceTableOf(selected_keys, grouped)
       IN  IF t.shown = "table"
           THEN \E ordered_vendors \in AscendingOrders(t.vendor_totals) :
                   price_list' = [shown |-> "table",
                                  rows |-> t.rows,
                                  cells |-> t.cells,
                                  vendor_totals |-> t.vendor_totals,
                                  ordered_vendors |-> ordered_vendors]
           ELSE price_list' = t
    /\ pc' = "projected"
    /\ UNCHANGED <<master_rows, session, runVars, selected_keys, outcome,
                   stdVars, resVars, adaptVars>>

\* the run ends; the next one starts from the stored selection alone
Finish ==
    /\ pc = "projected"
    /\ pc' = "idle"
    /\ Blank
    /\ UNCHANGED <<master_rows, session, outcome, stdVars, resVars, adaptVars>>

Next ==
    \/ NoData
    \/ LoadAndMerge
    \/ Normalize
    \/ FilterToNothing
    \/ FilterToRows
    \/ TableFails
    \/ BuildTable
    \/ EditTable
    \/ UpdateSelection
    \/ Decode
    \/ Project
    \/ Finish

Spec == Init /\ [][Next]_vars

----------------------------------------------------------------------------
(* Properties of the upload loop and of the 10-vial rule *)

\* the run of main() is past the upload loop
PastMerge == pc \in {"merged", "normalized", "filtered", "displayed",
                     "edited", "updated", "decoded", "projected"}

\* the run of main() is past the override of total_mg_per_kit
PastNormalize == pc \in {"normalized", "filtered", "displayed", "edited",
                         "updated", "decoded", "projected"}

\* C10: after the upload loop the frame is the base rows followed by the rows
\* of every file that reads and has all required columns, in upload order,
\* each row with the columns of the base frame and null in the columns the
\* file lacks; a file that does not read or lacks a required column adds no
\* row and is reported by name, and the files after it are still merged.
C10_AcceptedFilesMergedInFull ==
    PastMerge =>
        LET n == Len(uploaded_files)
            Accepted(i) == /\ uploaded_files[i].readable
                           /\ required_cols \subseteq uploaded_files[i].columns
            end[i \in 0..n] ==
                IF i = 0 THEN master_rows
                ELSE end[i - 1] + (IF Accepted(i)
                                   THEN Len(uploaded_files[i].rows) ELSE 0)
            rejected[i \in 0..n] ==
                IF i = 0 THEN 0
                ELSE rejected[i - 1] + (IF Accepted(i) THEN 0 ELSE 1)
        IN  /\ Len(merged) = end[n]
            /\ SubSeq(merged, 1, master_rows) = SubSeq(MasterRows, 1, master_rows)
            /\ Len(errors) = rejected[n]
            /\ \A i \in 1..n :
                  IF Accepted(i)
                  THEN \A j \in 1..Len(uploaded_files[i].rows) :
                          LET row == uploaded_files[i].rows[j]
                              got == merged[end[i - 1] + j]
                          IN  /\ DOMAIN got = BaseCols
                              /\ \A c \in BaseCols :
                                    got[c] = IF c \in DOMAIN row THEN row[c]
                                             ELSE IF c \in NumericCols
                                             THEN None ELSE NoText
                  ELSE errors[rejected[i]] = uploaded_files[i].name

\* a file without a required column was uploaded before a file with all of
\* them, and the loop has run
C10_Witness ==
    /\ pc = "merged"
    /\ uploaded_files = <<BadFile, UtFile>>
    /\ errors = <<"bad.csv">>
    /\ Len(merged) = master_rows + 2

\* C6: after the override every record with a known dose_mg_per_vial has
\* total_mg_per_kit = dose_mg_per_vial * 10, whatever vials_per_kit and total
\* it came with, and a record with an unknown dose keeps its total.
C6_TotalIsTenDoses ==
    PastNormalize =>
        /\ Len(df) = Len(merged)
        /\ \A i \in 1..Len(df) :
              IF merged[i].dose_mg_per_vial # None
              THEN df[i].total_mg_per_kit =
                       Frac(merged[i].dose_mg_per_vial[1] * 10,
                            merged[i].dose_mg_per_vial[2])
              ELSE df[i].total_mg_per_kit = merged[i].total_mg_per_kit

\* the override has replaced the total of a base record with 5 vials and of
\* an uploaded record, and has kept the total of a record without a dose
C6_Witness ==
    /\ pc = "normalized"
    /\ \E i \in 1..Len(df) :
          /\ i <= master_rows
          /\ merged[i].vials_per_kit = <<5, 1>>
          /\ merged[i].total_mg_per_kit = <<25, 1>>
          /\ df[i].total_mg_per_kit = <<50, 1>>
    /\ \E i \in 1..Len(df) :
          /\ i > master_rows
          /\ merged[i].total_mg_per_kit = <<7, 1>>
          /\ df[i].total_mg_per_kit = <<50, 1>>
    /\ \E i \in 1..Len(df) :
          /\ merged[i].dose_mg_per_vial = None
          /\ df[i].total_mg_per_kit = <<7, 1>>

\* C7: every record entering the aggregation that has a price_usd and a known
\* dose_mg_per_vial has price_per_mg = price_usd / total_mg_per_kit, the total
\* being the overridden one.
C7_PpmFollowsOverriddenTotal ==
    pc = "filtered" =>
        \A i \in 1..Len(filt) :
            (/\ filt[i].price_usd # None
             /\ filt[i].dose_mg_per_vial # None
             /\ filt[i].total_mg_per_kit # None
             /\ filt[i].total_mg_per_kit[1] > 0)
            => filt[i].price_per_mg =
                   RDiv(filt[i].price_usd, filt[i].total_mg_per_kit)

----------------------------------------------------------------------------
(* SpecRank: lines 292-308 on grouped records of two rows *)

MaxRankVendors == 3
MaxPpm == 2

RankVendors == {<<"A", "B", "C", "D", "E">>[i] : i \in 1..MaxRankVendors}

RankDoses == {<<5, 1>>, <<10, 1>>}

PpmValues == {None} \cup {<<k, 5>> : k \in 1..MaxPpm}

\* the grouped records of a table that gives every (dose, vendor) a price_usd
\* and the price_per_mg of ppm
GroupedFrom(ppm) ==
    {[canonical_peptide |-> Chars("BPC 157"),
      dose_mg_per_vial |-> k[1],
      total_mg_per_kit |-> RMul(k[1], <<KitVials, 1>>),
      vendor |-> k[2],
      price_usd |-> <<40, 1>>,
      price_per_mg |-> ppm[k]] : k \in RankDoses \X RankVendors}

InitRank ==
    /\ pc = "grouped"
    /\ \E ppm \in [RankDoses \X RankVendors -> PpmValues] :
          grouped = GroupedFrom(ppm)
    /\ vendor_names = RankVendors
    /\ ranks = <<>>
    /\ master_rows = 0
    /\ session = {}
    /\ outcome = ""
    /\ uploaded_files = <<>>
    /\ merged = <<>>
    /\ errors = <<>>
    /\ df = <<>>
    /\ filt = <<>>
    /\ display = <<>>
    /\ visible_keys = {}
    /\ prev_keys_set = {}
    /\ checked_keys = {}
    /\ selected_keys = {}
    /\ price_list = NoList
    /\ StdIdle
    /\ AdaptIdle
    /\ ResIdle

\* lines 264-308: pivot and the ranks of its price_per_mg columns
RankRows ==
    /\ pc = "grouped"
    /\ ranks' = RanksOf(PivotOf(grouped), vendor_names)
    /\ pc' = "ranked"
    /\ UNCHANGED <<master_rows, session, uploaded_files, merged, errors, df,
                   filt, grouped, vendor_names, display, visible_keys,
                   prev_keys_set, checked_keys, outcome, stdVars, resVars, adaptVars, projVars>>

NextRank == RankRows

SpecRank == InitRank /\ [][NextRank]_vars

\* the price_per_mg grouped holds for a row and a vendor, None without one
GroupedPpm(row, v) ==
    LET gs == {g \in grouped : RowOf(g) = row /\ g.vendor = v}
    IN  IF gs = {} THEN None ELSE (CHOOSE g \in gs : TRUE).price_per_mg

\* C3: in every row a vendor with a present price_per_mg has rank 1 + the
\* number of vendors of the row with a strictly smaller present price_per_mg
\* (equal values share the lowest rank of the tie, the next value resumes
\* after the tie group), and a vendor with an absent value has no rank.
C3_CompetitionRanking ==
    pc = "ranked" =>
        \A row \in DOMAIN ranks : \A v \in vendor_names :
            IF GroupedPpm(row, v) # None
            THEN /\ v \in DOMAIN ranks[row]
                 /\ ranks[row][v] = 1 + Cardinality({w \in vendor_names :
                        /\ GroupedPpm(row, w) # None
                        /\ RLess(GroupedPpm(row, w), GroupedPpm(row, v))})
            ELSE v \in DOMAIN ranks[row] => ranks[row][v] = NoRank

\* a row with A = B < C has been ranked A = 1, B = 1, C = 3, beside a row
\* where a vendor has no value and no rank
C3_Witness ==
    /\ pc = "ranked"
    /\ \E row \in DOMAIN ranks :
          /\ GroupedPpm(row, "A") = <<1, 5>>
          /\ GroupedPpm(row, "B") = <<1, 5>>
          /\ GroupedPpm(row, "C") = <<2, 5>>
          /\ ranks[row]["A"] = 1
          /\ ranks[row]["B"] = 1
          /\ ranks[row]["C"] = 3
    /\ \E row \in DOMAIN ranks :
          /\ GroupedPpm(row, "A") = None
          /\ ranks[row]["A"] = NoRank

----------------------------------------------------------------------------
(* Properties of the markers and of the stored selection *)

\* the rank the table of ranks holds for a cell, NoRank without an entry
RankOfCell(row, v) ==
    IF row \in DOMAIN ranks /\ v \in DOMAIN ranks[row]
    THEN ranks[row][v] ELSE NoRank

\* C4: in the displayed table a vendor cell carries the best marker exactly
\* when the vendor's rank in the row is 1 and the second-best marker exactly
\* when it is 2, and a row where no vendor has a price_per_mg carries no
\* marker.
C4_MarkerIffRank ==
    pc \in {"displayed", "edited", "updated"} =>
        \A row \in DOMAIN display :
            /\ \A v \in DOMAIN display[row] :
                  /\ display[row][v].marker = "best" <=> RankOfCell(row, v) = 1
                  /\ display[row][v].marker = "second" <=> RankOfCell(row, v) = 2
            /\ (\A g \in grouped : RowOf(g) = row => g.price_per_mg = None)
                  => \A v \in DOMAIN display[row] : display[row][v].marker = ""

\* C1: the step that updates the stored selection leaves it equal to the old
\* selection minus the visible row keys, plus the visible row keys that are
\* checked; no other key is added or removed.
C1_SelectionTransition ==
    [][(pc = "edited" /\ pc' = "updated") =>
          session' = (session \ visible_keys)
                         \cup {k \in visible_keys : k \in checked_keys}]_vars

\* an update has kept a stored key that is not visible, dropped a stored key
\* that is visible and unchecked, and added a checked key
C1_Witness ==
    /\ pc = "updated"
    /\ prev_keys_set \ visible_keys # {}
    /\ (prev_keys_set \cap visible_keys) \ checked_keys # {}
    /\ checked_keys \ prev_keys_set # {}
    /\ session = (prev_keys_set \ visible_keys) \cup checked_keys

\* C2: over every step of every run, the runs ending with no rows or with an
\* error included, a key of the stored selection leaves it only in the update
\* of a run where the key is visible and not checked.
C2_HiddenKeysPersist ==
    [][\A k \in session :
          k \notin session' =>
              /\ pc = "edited"
              /\ k \in visible_keys
              /\ k \notin checked_keys]_vars

\* a run whose filters left no row has ended with a stored key still stored
C2_Witness ==
    /\ pc = "idle"
    /\ outcome = "no_rows"
    /\ session # {}

----------------------------------------------------------------------------
(* Properties of the price list by vendor *)

\* the minimum price_usd a vendor has among the records of the whole frame
\* that belong to the row of a stored key, None without a price
SelectedPrice(key, v) ==
    MinOf({df[i].price_usd : i \in {j \in 1..Len(df) :
              /\ Groupable(df[j])
              /\ df[j].vendor = v
              /\ row_key(<<df[j].canonical_peptide, df[j].dose_mg_per_vial,
                           df[j].total_mg_per_kit>>) = key}})

\* C11: in the price list every retained vendor's TOTAL is the sum of the
\* vendor's minimum price_usd over all rows whose key is in the stored
\* selection, the selected rows the filters hide included (a row where the
\* vendor has no price adds nothing); the vendor columns are in ascending
\* order of the totals and a vendor with no price in any selected row is not
\* retained.
C11_TotalsOverStoredSelection ==
    (pc = "projected" /\ price_list.shown = "table") =>
        /\ \A v \in DOMAIN price_list.vendor_totals :
              /\ price_list.vendor_totals[v] =
                     SumOf([key \in session |-> SelectedPrice(key, v)])
              /\ \E key \in session : SelectedPrice(key, v) # None
        /\ \A i, j \in 1..Len(price_list.ordered_vendors) :
              i < j => ~RLess(
                  price_list.vendor_totals[price_list.ordered_vendors[j]],
                  price_list.vendor_totals[price_list.ordered_vendors[i]])

----------------------------------------------------------------------------
(* SpecAdapt: one vendor parser run on one table *)

MaxTableRows == 2

T(str) == IF str = "" THEN <<>> ELSE Chars(str)

\* rows of an extracted table: headers, a full row, a sub-row without a
\* name, rows shorter than four cells, a row without a code, a row with an
\* empty price, an empty row
PdfRows ==
    {<<T("Code"), T("Name"), T("Specification"), T("1kit")>>,
     <<T("Cat. No."), T("Product"), T("Spec"), T("Price")>>,
     <<T("H01"), T("BPC 157"), T("5mg*10vials"), T("$41")>>,
     <<T("H02"), NoText, T("10mg*10vials"), T("60")>>,
     <<T("H03"), T("TB-500")>>,
     <<T("H04")>>,
     <<NoText, T("GLP"), NoText, NoText>>,
     <<T("H05"), T("AOD 9604"), T("5mg"), T("")>>,
     <<>>}

\* rows of jeep_manual.csv: a full row, rows with empty fields
JeepRows ==
    {<<"Jeep", T("BPC 157"), T("5mg"), T("41"), T("10 vials")>>,
     <<"Jeep", NoText, T("5mg"), T("41"), T("10 vials")>>,
     <<"Jeep", T("TB-500"), T("5mg"), NoText, NoText>>,
     <<"Jeep", NoText, NoText, NoText, NoText>>}

Tables(rows) == UNION {[1..n -> rows] : n \in 0..MaxTableRows}

InitAdapt ==
    /\ adapter \in {"parse_hyb", "parse_cn_full", "parse_jeep_csv"}
    /\ table \in IF adapter = "parse_jeep_csv" THEN Tables(JeepRows)
                 ELSE Tables(PdfRows)
    /\ emitted = NotRun
    /\ StdIdle
    /\ ResIdle
    /\ AppIdle

ParseHyb ==
    /\ adapter = "parse_hyb"
    /\ emitted = NotRun
    /\ emitted' = parse_hyb(table)
    /\ UNCHANGED <<adapter, table, stdVars, resVars, appVars>>

ParseCnFull ==
    /\ adapter = "parse_cn_full"
    /\ emitted = NotRun
    /\ emitted' = parse_cn_full(table)
    /\ UNCHANGED <<adapter, table, stdVars, resVars, appVars>>

ParseJeepCsv ==
    /\ adapter = "parse_jeep_csv"
    /\ emitted = NotRun
    /\ emitted' = parse_jeep_csv(table)
    /\ UNCHANGED <<adapter, table, stdVars, resVars, appVars>>

NextAdapt ==
    \/ ParseHyb
    \/ ParseCnFull
    \/ ParseJeepCsv

SpecAdapt == InitAdapt /\ [][NextAdapt]_vars

\* C12: a record is emitted for a source row only if the row has a price
\* cell that is present and not empty and a product name that is present and
\* not empty (its own name cell or, in a parser that carries names forward,
\* the name cell of an earlier row).
C12_EmittedOnlyWithNameAndPrice ==
    emitted # NotRun =>
        \A n \in 1..Len(emitted) :
            LET r == table[emitted[n].row]
            IN  /\ Len(r) >= 4
                /\ r[4] # NoText
                /\ r[4] # <<>>
                /\ \/ r[2] # NoText /\ r[2] # <<>>
                   \/ /\ adapter = "parse_cn_full"
                      /\ \E j \in 1..(emitted[n].row - 1) :
                            /\ Len(table[j]) >= 2
                            /\ table[j][2] # NoText
                            /\ table[j][2] # <<>>

\* C13: a run whose filters leave some rows never fails in the pivot or the
\* display table: it shows a table with a column for every vendor of the
\* filtered rows, also for a vendor without a known dose or price, and goes
\* on to the update of the stored selection.
C13_TableForEveryVendor ==
    /\ outcome # "KeyError"
    /\ pc \in {"displayed", "edited", "updated", "decoded", "projected"} =>
          \A row \in DOMAIN display :
              ColumnValues(filt, "vendor") \subseteq DOMAIN display[row]

----------------------------------------------------------------------------
(* SpecDecode: lines 409-474 on a stored selection of any strings.  The    *)
(* session state outlives the script, so the list read at line 411 is not  *)
(* bound to the keys line 365 builds.                                      *)

MaxStoredKeys == 3

StoredKeys ==
    {Chars("BPC 157|5.0|50.0"),
     Chars("AOD 9604|10.0|100.0"),
     Chars("BPC 157|5.0"),
     Chars("BPC|157|5.0|50.0"),
     Chars("BPC 157"),
     Chars("BPC 157|five|50.0"),
     Chars("BPC 157|5.0|"),
     Chars("BPC 157|nan|50.0")}

InitDecode ==
    /\ pc = "updated"
    /\ session \in {keys \in SUBSET StoredKeys :
                       Cardinality(keys) <= MaxStoredKeys}
    /\ outcome = "ok"
    /\ master_rows = Len(MasterRows)
    /\ df = NormalizeFrame(MasterRows)
    /\ filt = df
    /\ grouped = GroupedOf(filt)
    /\ uploaded_files = <<>>
    /\ merged = MasterRows
    /\ errors = <<>>
    /\ vendor_names = {}
    /\ ranks = <<>>
    /\ display = <<>>
    /\ visible_keys = {}
    /\ prev_keys_set = session
    /\ checked_keys = {}
    /\ selected_keys = {}
    /\ price_list = NoList
    /\ StdIdle
    /\ AdaptIdle
    /\ ResIdle

NextDecode ==
    \/ Decode
    \/ Project

SpecDecode == InitDecode /\ [][NextDecode]_vars

----------------------------------------------------------------------------
(* Properties of the field domains of a standardized record *)

\* C15: every record standardize_row returns has price_usd absent or a
\* number not below 0, dose_mg_per_vial absent or above 0, vials_per_kit a
\* positive integer, and total_mg_per_kit present, and equal to
\* dose_mg_per_vial * vials_per_kit, exactly when dose_mg_per_vial is present.
C15_FieldDomains ==
    rec # NoRec =>
        /\ rec.price_usd # None =>
              IsFinite(rec.price_usd) /\ rec.price_usd[1] >= 0
        /\ rec.dose_mg_per_vial # None =>
              IsFinite(rec.dose_mg_per_vial) /\ rec.dose_mg_per_vial[1] > 0
        /\ rec.vials_per_kit # None
        /\ rec.vials_per_kit[2] = 1
        /\ rec.vials_per_kit[1] > 0
        /\ rec.total_mg_per_kit # None <=> rec.dose_mg_per_vial # None
        /\ rec.dose_mg_per_vial # None =>
              rec.total_mg_per_kit =
                  RMul(rec.dose_mg_per_vial, rec.vials_per_kit)

====
